---- MODULE Spec2Model ----
(***************************************************************************)
(* Model of the Workday URL discovery engine (main.py): the validity       *)
(* oracle check_redirect, the production locator find_production_url and   *)
(* the implementation tenant scanner find_implementation_tenants.          *)
(*                                                                         *)
(* Strings are sequences of tokens: a token is a run of characters that    *)
(* the code never looks inside ("{id}", "\"failover\"", a host name...).   *)
(***************************************************************************)
EXTENDS Integers, Sequences, FiniteSets, TLC

VARIABLES
    r,                       \* oracle: the response under test
    oracle_pc,               \* oracle: "call" | "returned"
    oracle_ret,              \* oracle: what check_redirect returned / raised
    op,                      \* which engine operation runs: "none" | "prod" | "impl"
    tenant_id,               \* argument tenant_id
    sandbox_url_template,    \* argument sandbox_url_template
    max_impl,                \* argument max_impl
    ndc,                     \* number of entries of data_centers the run enumerates
    net,                     \* environment: the response each candidate's URL gets
    future_to,               \* future_to_dc / future_to_impl: submitted futures, in order
    fstate,                  \* state of each future
    finished0,               \* as_completed: futures already finished when it was called
    waitq,                   \* as_completed: waiter.finished_futures, completion order
    pc,                      \* position of the calling thread
    ci,                      \* index of the cancel loop
    cur,                     \* the future as_completed handed to the loop body
    yielded,                 \* history: the futures in the order the loop got them
    implementation_tenants,  \* the result list of find_implementation_tenants
    retval,                  \* value returned to the caller
    raised,                  \* an exception reached the caller
    started_after_match,     \* history: a probe began after a match was observed
    max_running,             \* history: largest number of probes running at once
    session_cookies,         \* _SESSION.cookies: the futures whose response stored a cookie
    attempts,                \* probe: the HTTP requests sent so far, [method, outcome]
    retries,                 \* probe: the Retry counters left, [total, connect, read]
    probe_pc,                \* probe: "idle" | "request" | "done"
    probe_result,            \* probe: "none" | "response" | "RequestException"
    d_kind,                  \* derivation: "none" | "preview" | "cc"
    d_in,                    \* derivation: the template passed in
    d_once,                  \* derivation: the result of the first application
    d_out,                   \* derivation: the latest result
    d_n,                     \* derivation: number of applications so far
    app_pc,                  \* app: position of the script run
    a_tenant,                \* app: tenant_id of the run
    a_max_impl,              \* app: the slider value max_impl
    search_history,          \* app: st.session_state.search_history, insertion order
    saved_history,           \* app: the persisted history file
    prefill,                 \* app: st.session_state.prefill
    run_from_history,        \* app: st.session_state.run_from_history
    data_center,             \* app: data_center of the run
    production_url,          \* app: production_url of the run
    sandbox_template,        \* app: sandbox_template of the run
    sandbox_url,             \* app: sandbox_url of the run
    preview_url,             \* app: preview_url of the run
    cc_url,                  \* app: cc_url of the run
    impls,                   \* app: impls of the run
    app_probes,              \* app, history: probes issued by the engine calls of the runs
    runs                     \* app, history: searches a session has run to their end

oracle_vars == <<r, oracle_pc, oracle_ret>>

engine_vars == <<op, tenant_id, sandbox_url_template, max_impl, ndc, net, future_to, fstate,
                 finished0, waitq, pc, ci, cur, yielded, implementation_tenants, retval,
                 raised, started_after_match, max_running, session_cookies>>

probe_vars == <<attempts, retries, probe_pc, probe_result>>

derive_vars == <<d_kind, d_in, d_once, d_out, d_n>>

app_vars == <<app_pc, a_tenant, a_max_impl, search_history, saved_history, prefill,
              run_from_history, data_center, production_url, sandbox_template,
              sandbox_url, preview_url, cc_url, impls, app_probes, runs>>

vars == <<oracle_vars, engine_vars, probe_vars, derive_vars, app_vars>>

----------------------------------------------------------------------------
(* Bounds *)

MaxSlashes == 2      \* trailing "/" characters on a final URL
MaxWs == 2           \* length of a whitespace run inside a body
NumDC == 3           \* registry entries taken into a run (registry prefix)
MaxIndex == 3        \* largest max_impl argument
MaxTplLen == 5      \* tokens of a template under derivation
MaxSliderSteps == 1 \* slider positions above the minimum
MaxScan == 4        \* indices of the scan that is longer than three
MaxOverflow == 1    \* indices of a scan beyond the number of pool workers
MaxLive == 2        \* candidates of a call checked for termination
MaxRuns == 2        \* searches of a session that starts from a stored history

----------------------------------------------------------------------------
(* String helpers *)

RECURSIVE rstrip(_, _)
rstrip(s, ch) ==
    IF s # <<>> /\ s[Len(s)] = ch THEN rstrip(SubSeq(s, 1, Len(s) - 1), ch) ELSE s

Whitespace == {" ", "\n"}

RECURSIVE lstrip_ws(_)
lstrip_ws(s) ==
    IF s # <<>> /\ Head(s) \in Whitespace THEN lstrip_ws(Tail(s)) ELSE s

RECURSIVE rstrip_ws(_)
rstrip_ws(s) ==
    IF s # <<>> /\ s[Len(s)] \in Whitespace
    THEN rstrip_ws(SubSeq(s, 1, Len(s) - 1)) ELSE s

strip(s) == rstrip_ws(lstrip_ws(s))

\* Python's `needle in haystack` for strings
contains(hay, needle) ==
    \E i \in 0..(Len(hay) - Len(needle)) :
        SubSeq(hay, i + 1, i + Len(needle)) = needle

Repeat(ch, n) == [i \in 1..n |-> ch]

----------------------------------------------------------------------------
(* _normalize_url and the sentinel *)

INVALID_URL == <<"https://community.workday.com/invalid-url?dev=1">>

_normalize_url_nostrip(u) == u

_normalize_url(u) == IF u = <<>> THEN u ELSE rstrip(u, "/")

----------------------------------------------------------------------------
(* r.json(): the JSON decoder behind requests' Response.json(), on token   *)
(* sequences.  A value is [t, s, items]; t is its Python type.             *)

StringTokens == {"\"failover\"", "\"errorMessage\"", "\"x\""}

JVal(t, s, items) == [t |-> t, s |-> s, items |-> items]

NoParse == [ok |-> FALSE, v |-> JVal("none", "", <<>>), rest |-> <<>>]

Parsed(v, rest) == [ok |-> TRUE, v |-> v, rest |-> rest]

RECURSIVE parse_value(_), parse_members(_, _), parse_elements(_, _)

parse_value(s) ==
    LET s1 == lstrip_ws(s) IN
    IF s1 = <<>> THEN NoParse
    ELSE LET h == Head(s1)
             t == Tail(s1)
         IN CASE h = "{" ->
                   LET s2 == lstrip_ws(t) IN
                   IF s2 # <<>> /\ Head(s2) = "}"
                   THEN Parsed(JVal("dict", "", <<>>), Tail(s2))
                   ELSE parse_members(s2, <<>>)
              [] h = "[" ->
                   LET s2 == lstrip_ws(t) IN
                   IF s2 # <<>> /\ Head(s2) = "]"
                   THEN Parsed(JVal("list", "", <<>>), Tail(s2))
                   ELSE parse_elements(s2, <<>>)
              [] h \in StringTokens -> Parsed(JVal("str", h, <<>>), t)
              [] h = "true" -> Parsed(JVal("True", "", <<>>), t)
              [] h = "false" -> Parsed(JVal("False", "", <<>>), t)
              [] h = "null" -> Parsed(JVal("None", "", <<>>), t)
              [] h = "0" -> Parsed(JVal("int", "0", <<>>), t)
              [] OTHER -> NoParse

parse_members(s, acc) ==
    IF s = <<>> \/ Head(s) \notin StringTokens THEN NoParse
    ELSE LET s1 == lstrip_ws(Tail(s)) IN
         IF s1 = <<>> \/ Head(s1) # ":" THEN NoParse
         ELSE LET pv == parse_value(Tail(s1)) IN
              IF ~pv.ok THEN NoParse
              ELSE LET s2 == lstrip_ws(pv.rest)
                       acc2 == Append(acc, [k |-> Head(s), v |-> pv.v])
                   IN IF s2 = <<>> THEN NoParse
                      ELSE IF Head(s2) = "}"
                           THEN Parsed(JVal("dict", "", acc2), Tail(s2))
                      ELSE IF Head(s2) = ","
                           THEN parse_members(lstrip_ws(Tail(s2)), acc2)
                      ELSE NoParse

parse_elements(s, acc) ==
    LET pv == parse_value(s) IN
    IF ~pv.ok THEN NoParse
    ELSE LET s2 == lstrip_ws(pv.rest)
             acc2 == Append(acc, pv.v)
         IN IF s2 = <<>> THEN NoParse
            ELSE IF Head(s2) = "]"
                 THEN Parsed(JVal("list", "", acc2), Tail(s2))
            ELSE IF Head(s2) = ","
                 THEN parse_elements(Tail(s2), acc2)
            ELSE NoParse

\* r.json(): ok = FALSE stands for the ValueError it raises
json(text) ==
    LET pv == parse_value(text) IN
    IF pv.ok /\ lstrip_ws(pv.rest) = <<>> THEN pv ELSE NoParse

----------------------------------------------------------------------------
(* Python's operators on the decoded value *)

\* a JSON string token for the Python string `word`
Quoted(word) ==
    CASE word = "failover" -> "\"failover\""
      [] word = "errorMessage" -> "\"errorMessage\""
      [] OTHER -> "\"x\""

\* `word in data`; t = "TypeError" when data is not a container
py_in(word, data) ==
    CASE data.t = "dict" -> \E i \in 1..Len(data.items) : data.items[i].k = Quoted(word)
      [] data.t = "list" -> \E i \in 1..Len(data.items) :
                               /\ data.items[i].t = "str"
                               /\ data.items[i].s = Quoted(word)
      [] data.t = "str" -> data.s = Quoted(word)
      [] OTHER -> FALSE

py_in_raises(data) == data.t \notin {"dict", "list", "str"}

\* data[word] of a dict: the decoder keeps the last member of a repeated key
py_getitem(data, word) ==
    LET hits == {i \in 1..Len(data.items) : data.items[i].k = Quoted(word)}
        last == CHOOSE i \in hits : \A j \in hits : j <= i
    IN data.items[last].v

\* `v is False`
py_is_False(v) == v.t = "False"

----------------------------------------------------------------------------
(* check_redirect *)

lower(ct) ==
    [i \in 1..Len(ct) |-> IF ct[i] = "Application/JSON" THEN "application/json" ELSE ct[i]]

\* lines 83-92: the body of the inner try; the outcome is "return False",
\* "fallthrough" or the name of the exception raised
json_error_patterns(text) ==
    LET pv == json(text) IN
    IF ~pv.ok THEN "ValueError"
    ELSE LET data == pv.v IN
         IF py_in_raises(data) THEN "TypeError"
         ELSE IF py_in("failover", data) /\ data.t # "dict" THEN "TypeError"
         ELSE IF py_in("failover", data) /\ py_is_False(py_getitem(data, "failover"))
              THEN "return False"
         ELSE IF py_in("errorMessage", data) THEN "return False"
         ELSE "fallthrough"

except_nothing(exc) == FALSE

\* line 94: except (ValueError, AttributeError, TypeError)
except_json(exc) == exc \in {"ValueError", "AttributeError", "TypeError"}

\* lines 99-108: the raw text check
text_error_patterns(text) ==
    /\ text # <<>>
    /\ LET text_content == strip(text) IN
       /\ text_content # <<>>
       /\ Head(text_content) = "{"
       /\ \/ contains(text_content, <<"\"failover\"", ":", "false">>)
          \/ contains(text_content, <<"\"failover\"", ":", " ", "false">>)
          \/ contains(text_content, <<"\"errorMessage\"">>)

is_2xx_no_floor(status_code) == status_code < 300

\* line 111
is_2xx(status_code) == 200 <= status_code /\ status_code < 300

Returns(b) == [raised |-> FALSE, value |-> b]

Raises == [raised |-> TRUE, value |-> FALSE]

\* lines 63-115.  resp.kind = "response": _SESSION.get returned resp;
\* "RequestException" / "Exception": it raised one of that class.
check_redirect(resp) ==
    LET invalid_norm == _normalize_url(INVALID_URL) IN
    IF resp.kind = "RequestException" THEN Returns(FALSE)
    ELSE IF resp.kind = "Exception" THEN Raises
    ELSE IF _normalize_url(resp.url) = invalid_norm THEN Returns(FALSE)
    ELSE IF resp.status_code >= 400 THEN Returns(FALSE)
    ELSE LET content_type == lower(resp.content_type)
             is_json == \/ contains(content_type, <<"application/json">>)
                        \/ contains(content_type, <<"text/json">>)
             inner == IF is_json THEN json_error_patterns(resp.text) ELSE "fallthrough"
         IN IF inner = "return False" THEN Returns(FALSE)
            ELSE IF inner # "fallthrough" /\ ~except_json(inner) THEN Raises
            ELSE IF text_error_patterns(resp.text) THEN Returns(FALSE)
            ELSE Returns(is_2xx(resp.status_code))

----------------------------------------------------------------------------
(* Responses the oracle is exercised with *)

OTHER_URL == <<"https://www.myworkday.com/acme/d/home.htmld">>

FinalUrls ==
    {base \o Repeat("/", n) : base \in {INVALID_URL, OTHER_URL}, n \in 0..MaxSlashes}

Statuses == {199, 200, 299, 300, 399, 400, 503}

ContentTypes ==
    { <<>>, <<"text/html">>, <<"application/json">>, <<"text/json">>,
      <<"Application/JSON", "; charset=utf-8">> }

\* one-member objects, well-formed and truncated, in every spacing
ObjectBodies ==
    { lead \o <<"{", k>> \o Repeat(" ", a) \o <<":">> \o Repeat(" ", b) \o <<v>> \o close :
        lead \in {<<>>, <<"\n">>},
        k \in StringTokens,
        a \in 0..MaxWs,
        b \in 0..MaxWs,
        v \in {"false", "true", "0", "\"errorMessage\""},
        close \in {<<"}">>, <<>>} }

OtherBodies ==
    { <<>>,
      <<"<html>">>,
      <<"null">>,
      <<"\"failover\"">>,
      <<"{", "}">>,
      <<"{", "\"x\"", ":", "}">>,
      <<"[", "\"errorMessage\"", "]">>,
      <<"[", "{", "\"failover\"", ":", "false", "}", "]">>,
      <<"{", "\"x\"", ":", "{", "\"failover\"", ":", "false", "}", "}">>,
      <<"{", "\"failover\"", ":", "true", ",", "\"errorMessage\"", ":", "\"x\"", "}">>,
      <<"{", "\"failover\"", ":", "false", ",", "\"failover\"", ":", "true", "}">>,
      <<"{", "\"failover\"", ":", "false", "}">>,
      <<"{", "\"failover\"", ":", "true", "}">> }

Response(url, status_code, content_type, text) ==
    [kind |-> "response", url |-> url, status_code |-> status_code,
     content_type |-> content_type, text |-> text, set_cookie |-> FALSE]

Failure(kind) ==
    [kind |-> kind, url |-> <<>>, status_code |-> 0, content_type |-> <<>>, text |-> <<>>,
     set_cookie |-> FALSE]

\* the same response carrying a Set-Cookie header
SetsCookie(resp) == [resp EXCEPT !.set_cookie = TRUE]

Responses ==
    {Response(u, s, c, b) : u \in FinalUrls, s \in Statuses, c \in ContentTypes, b \in OtherBodies}
    \cup {Response(OTHER_URL, s, c, b) : s \in Statuses, c \in ContentTypes, b \in ObjectBodies}
    \cup {Failure("RequestException"), Failure("Exception")}

----------------------------------------------------------------------------
(* The oracle on its own: one call of check_redirect on any response *)

ProbeIdle ==
    /\ attempts = <<>>
    /\ retries = [total |-> 0, connect |-> 0, read |-> 0]
    /\ probe_pc = "idle"
    /\ probe_result = "none"

DeriveIdle ==
    /\ d_kind = "none"
    /\ d_in = <<>>
    /\ d_once = <<>>
    /\ d_out = <<>>
    /\ d_n = 0

AppIdle ==
    /\ app_pc = "idle"
    /\ a_tenant = <<>>
    /\ a_max_impl = 0
    /\ search_history = <<>>
    /\ saved_history = <<>>
    /\ prefill = <<>>
    /\ run_from_history = FALSE
    /\ data_center = <<>>
    /\ production_url = <<>>
    /\ sandbox_template = <<>>
    /\ sandbox_url = <<>>
    /\ preview_url = <<>>
    /\ cc_url = <<>>
    /\ impls = <<>>
    /\ app_probes = 0
    /\ runs = 0

EngineIdle ==
    /\ op = "none"
    /\ ndc = 0
    /\ session_cookies = {}
    /\ tenant_id = <<>>
    /\ sandbox_url_template = <<>>
    /\ max_impl = 0
    /\ net = <<>>
    /\ future_to = <<>>
    /\ fstate = <<>>
    /\ finished0 = {}
    /\ waitq = <<>>
    /\ pc = "idle"
    /\ ci = 0
    /\ cur = 0
    /\ yielded = <<>>
    /\ implementation_tenants = <<>>
    /\ retval = <<>>
    /\ raised = FALSE
    /\ started_after_match = FALSE
    /\ max_running = 0

InitOracle ==
    /\ r \in Responses
    /\ oracle_pc = "call"
    /\ oracle_ret = Returns(FALSE)
    /\ EngineIdle
    /\ ProbeIdle
    /\ DeriveIdle
    /\ AppIdle

OracleCall ==
    /\ oracle_pc = "call"
    /\ oracle_ret' = check_redirect(r)
    /\ oracle_pc' = "returned"
    /\ UNCHANGED <<r, engine_vars, probe_vars, derive_vars, app_vars>>

NextOracle == OracleCall

SpecOracle == InitOracle /\ [][NextOracle]_vars

----------------------------------------------------------------------------
(* The registries and str.format *)

ProdTemplate(host) == <<host, "/", "{id}", "/", "login.htmld?redirect=n">>

\* find_production_url.data_centers, in insertion order
data_centers ==
    << [data_center |-> <<"Data Center 1">>,   url_template |-> ProdTemplate("https://www.myworkday.com/wday/authgwy")],
       [data_center |-> <<"Data Center 3">>,   url_template |-> ProdTemplate("https://wd3.myworkday.com/wday/authgwy")],
       [data_center |-> <<"Data Center 5">>,   url_template |-> ProdTemplate("https://wd5.myworkday.com/wday/authgwy")],
       [data_center |-> <<"Data Center 10">>,  url_template |-> ProdTemplate("https://wd10.myworkday.com/wday/authgwy")],
       [data_center |-> <<"Data Center 12">>,  url_template |-> ProdTemplate("https://wd12.myworkday.com/wday/authgwy")],
       [data_center |-> <<"Data Center 102">>, url_template |-> ProdTemplate("https://wd102.myworkday.com/wday/authgwy")],
       [data_center |-> <<"Data Center 103">>, url_template |-> ProdTemplate("https://wd103.myworkday.com/wday/authgwy")],
       [data_center |-> <<"Data Center 104">>, url_template |-> ProdTemplate("https://wd104.myworkdaygov.com/wday/authgwy")],
       [data_center |-> <<"Data Center 105">>, url_template |-> ProdTemplate("https://wd105.myworkday.com/wday/authgwy")],
       [data_center |-> <<"Data Center 501">>, url_template |-> ProdTemplate("https://wd501.myworkday.com/wday/authgwy")],
       [data_center |-> <<"Data Center 503">>, url_template |-> ProdTemplate("https://wd503.myworkday.com/wday/authgwy")],
       [data_center |-> <<"Data Center 108">>, url_template |-> ProdTemplate("https://wd108.myworkday.com/wday/authgwy")],
       [data_center |-> <<"Data Center 107">>, url_template |-> ProdTemplate("https://wd107.myworkday.com/wday/authgwy")] >>

\* the entries a run enumerates: the first ndc of data_centers.items()
Registry == SubSeq(data_centers, 1, ndc)

\* two of find_sandbox_url.sandbox_urls, the arguments the scanner is run with
SandboxTemplates ==
    { <<"https://wd2-impl-identity.workday.com/wday/authgwy", "/", "{id}", "/", "login.htmld?redirect=n">>,
      <<"https://impl-identity.wd501.myworkday.com/wday/authgwy", "/", "{id}", "/", "upc/login?redirect=n">> }

format_identity(template, value) == template

\* template.format(id=value)
RECURSIVE format(_, _)
format(template, value) ==
    IF template = <<>> THEN <<>>
    ELSE (IF Head(template) = "{id}" THEN value ELSE <<Head(template)>>)
         \o format(Tail(template), value)

Digit(d) ==
    CASE d = 0 -> "0" [] d = 1 -> "1" [] d = 2 -> "2" [] d = 3 -> "3" [] d = 4 -> "4"
      [] d = 5 -> "5" [] d = 6 -> "6" [] d = 7 -> "7" [] d = 8 -> "8" [] d = 9 -> "9"

DigitValue(c) == CHOOSE d \in 0..9 : Digit(d) = c

\* str(n) of a natural number
RECURSIVE str(_)
str(n) == IF n < 10 THEN <<Digit(n)>> ELSE str(n \div 10) \o <<Digit(n % 10)>>

\* int(s) of a decimal numeral
RECURSIVE int(_)
int(s) ==
    IF Len(s) = 1 THEN DigitValue(s[1])
    ELSE 10 * int(SubSeq(s, 1, Len(s) - 1)) + DigitValue(s[Len(s)])

\* s.replace(old, "") for a one-token `old`
RECURSIVE replace_with_empty(_, _)
replace_with_empty(s, old) ==
    IF s = <<>> THEN <<>>
    ELSE (IF Head(s) = old THEN <<>> ELSE <<Head(s)>>) \o replace_with_empty(Tail(s), old)

\* line 231: the sort key of an (label, url) entry
sort_key(x) == int(replace_with_empty(replace_with_empty(x[1], "IMPL"), ":"))

\* list.insert into a list sorted by key, after the entries with an equal key
RECURSIVE insert_sorted(_, _)
insert_sorted(sorted, x) ==
    IF sorted = <<>> THEN <<x>>
    ELSE IF sort_key(x) < sort_key(Head(sorted)) THEN <<x>> \o sorted
    ELSE <<Head(sorted)>> \o insert_sorted(Tail(sorted), x)

RECURSIVE sort_stable(_, _)
sort_stable(acc, rest) ==
    IF rest = <<>> THEN acc ELSE sort_stable(insert_sorted(acc, Head(rest)), Tail(rest))

sort_skipped(l) == l

\* line 231: list.sort(key=...), a stable ascending sort
sort(l) == sort_stable(<<>>, l)

None == <<"None">>

----------------------------------------------------------------------------
(* The engine: find_production_url and find_implementation_tenants on a    *)
(* ThreadPoolExecutor.  Futures are numbered in submission order.          *)

prod_max_workers == 8

impl_max_workers == 10

max_workers_grown == IF op = "prod" THEN prod_max_workers + 1 ELSE impl_max_workers + 1

\* lines 145 / 215: ThreadPoolExecutor(max_workers=...)
max_workers == IF op = "prod" THEN prod_max_workers ELSE impl_max_workers

TenantIds == {<<"acme">>, <<>>}

\* what the network answers to a candidate URL
ProbeResponses ==
    { Response(OTHER_URL, 200, <<"text/html">>, <<"<html>">>),
      Failure("RequestException"),
      Failure("Exception") }

NFutures_window ==
    IF op = "prod" THEN Len(Registry)
    ELSE IF max_impl > 3 THEN 3 ELSE IF max_impl > 0 THEN max_impl ELSE 0

\* number of futures the operation submits
NFutures == IF op = "prod" THEN Len(Registry) ELSE IF max_impl > 0 THEN max_impl ELSE 0

OracleIdle ==
    /\ r = Failure("RequestException")
    /\ oracle_pc = "idle"
    /\ oracle_ret = Returns(FALSE)

InitCall ==
    /\ future_to = <<>>
    /\ fstate = <<>>
    /\ finished0 = {}
    /\ waitq = <<>>
    /\ pc = "submit"
    /\ ci = 0
    /\ cur = 0
    /\ yielded = <<>>
    /\ implementation_tenants = <<>>
    /\ retval = <<>>
    /\ raised = FALSE
    /\ started_after_match = FALSE
    /\ max_running = 0
    /\ session_cookies = {}

\* the registry prefix the bounded runs enumerate
BoundedRegistry == IF NumDC < Len(data_centers) THEN NumDC ELSE Len(data_centers)

InitProd ==
    /\ op = "prod"
    /\ ndc = BoundedRegistry
    /\ tenant_id \in TenantIds
    /\ sandbox_url_template = <<>>
    /\ max_impl = 0
    /\ net \in [1..Len(Registry) -> ProbeResponses]
    /\ InitCall

InitImpl ==
    /\ op = "impl"
    /\ ndc = BoundedRegistry
    /\ tenant_id \in TenantIds
    /\ sandbox_url_template \in SandboxTemplates
    /\ max_impl \in (-1)..MaxIndex
    /\ net \in [1..(IF max_impl > 0 THEN max_impl ELSE 0) -> ProbeResponses]
    /\ InitCall

Init == OracleIdle /\ ProbeIdle /\ DeriveIdle /\ AppIdle /\ (InitProd \/ InitImpl)

impl_id_with_separator(tenant, i) == tenant \o <<"-">> \o str(i)

\* line 210: f"{tenant_id}{i}"
impl_id_of(tenant, i) == tenant \o str(i)

\* line 225: f"IMPL{i}:"
impl_label(i) == <<"IMPL">> \o str(i) \o <<":">>

\* lines 147-150 / 209-219: the entry of the n-th submitted future
Entry(n) ==
    IF op = "prod" THEN Registry[n]
    ELSE [i |-> n,
          impl_id |-> impl_id_of(tenant_id, n),
          url |-> format(sandbox_url_template, impl_id_of(tenant_id, n))]

Running == {k \in 1..Len(fstate) : fstate[k] = "RUNNING"}

\* executor.submit of the next candidate
Submit ==
    /\ pc = "submit"
    /\ Len(future_to) < NFutures
    /\ future_to' = Append(future_to, Entry(Len(future_to) + 1))
    /\ fstate' = Append(fstate, "PENDING")
    /\ UNCHANGED <<oracle_vars, probe_vars, derive_vars, app_vars, session_cookies,
                   op, tenant_id, sandbox_url_template, max_impl, ndc, net,
                   finished0, waitq, pc, ci, cur, yielded, implementation_tenants,
                   retval, raised, started_after_match, max_running>>

\* a pool worker takes the oldest queued work item and runs check_redirect
Start(k) ==
    /\ k \in 1..Len(fstate)
    /\ fstate[k] = "PENDING"
    /\ \A j \in 1..(k - 1) : fstate[j] # "PENDING"
    /\ Cardinality(Running) < max_workers
    /\ fstate' = [fstate EXCEPT ![k] = "RUNNING"]
    /\ started_after_match' = (started_after_match \/ (pc \in {"cancel", "shutdown"} /\ cur # 0))
    /\ max_running' = IF Cardinality(Running) + 1 > max_running
                      THEN Cardinality(Running) + 1 ELSE max_running
    /\ UNCHANGED <<oracle_vars, probe_vars, derive_vars, app_vars, session_cookies,
                   op, tenant_id, sandbox_url_template, max_impl, ndc, net,
                   future_to, finished0, waitq, pc, ci, cur, yielded,
                   implementation_tenants, retval, raised>>

\* line 68: Session.send stores the cookies of every response it receives
\* in the jar of the session it was called on
stores_cookie(resp) == resp.kind = "response" /\ resp.set_cookie

\* the worker's check_redirect call ends and the future is resolved
Finish(k) ==
    /\ k \in 1..Len(fstate)
    /\ fstate[k] = "RUNNING"
    /\ fstate' = [fstate EXCEPT ![k] = "FINISHED"]
    /\ waitq' = IF pc \in {"next", "body"} THEN Append(waitq, k) ELSE waitq
    /\ session_cookies' = IF stores_cookie(net[k]) THEN session_cookies \cup {k}
                          ELSE session_cookies
    /\ UNCHANGED <<oracle_vars, probe_vars, derive_vars, app_vars,
                   op, tenant_id, sandbox_url_template, max_impl, ndc, net,
                   future_to, finished0, pc, ci, cur, yielded, implementation_tenants,
                   retval, raised, started_after_match, max_running>>

\* as_completed(...) is called once every candidate is submitted
EnterAsCompleted ==
    /\ pc = "submit"
    /\ Len(future_to) = NFutures
    /\ finished0' = {k \in 1..Len(fstate) : fstate[k] = "FINISHED"}
    /\ waitq' = <<>>
    /\ pc' = "next"
    /\ UNCHANGED <<oracle_vars, probe_vars, derive_vars, app_vars, session_cookies,
                   op, tenant_id, sandbox_url_template, max_impl, ndc, net,
                   future_to, fstate, ci, cur, yielded, implementation_tenants,
                   retval, raised, started_after_match, max_running>>

\* as_completed yields: first the futures found finished, in set order,
\* then the others in the order they finish
NextFuture ==
    /\ pc = "next"
    /\ \/ /\ finished0 # {}
          /\ \E k \in finished0 :
                /\ cur' = k
                /\ finished0' = finished0 \ {k}
                /\ yielded' = Append(yielded, k)
          /\ UNCHANGED waitq
       \/ /\ finished0 = {}
          /\ waitq # <<>>
          /\ cur' = Head(waitq)
          /\ waitq' = Tail(waitq)
          /\ yielded' = Append(yielded, Head(waitq))
          /\ UNCHANGED finished0
    /\ pc' = "body"
    /\ UNCHANGED <<oracle_vars, probe_vars, derive_vars, app_vars, session_cookies,
                   op, tenant_id, sandbox_url_template, max_impl, ndc, net,
                   future_to, fstate, ci, implementation_tenants,
                   retval, raised, started_after_match, max_running>>

\* as_completed is exhausted: every future was yielded
LoopExit ==
    /\ pc = "next"
    /\ finished0 = {}
    /\ waitq = <<>>
    /\ \A k \in 1..NFutures : fstate[k] = "FINISHED"
    /\ cur' = 0
    /\ pc' = "shutdown"
    /\ UNCHANGED <<oracle_vars, probe_vars, derive_vars, app_vars, session_cookies,
                   op, tenant_id, sandbox_url_template, max_impl, ndc, net,
                   future_to, fstate, finished0, waitq, ci, yielded,
                   implementation_tenants, retval, raised, started_after_match,
                   max_running>>

except_RequestException_only(exc) == exc = "RequestException"

\* lines 161 / 226: except Exception
except_Exception(exc) == exc \in {"Exception", "RequestException"}

after_except_break == "shutdown"

\* lines 163 / 228: continue
after_except == "next"

\* lines 154-163: the loop body of find_production_url
BodyProd ==
    /\ pc = "body"
    /\ op = "prod"
    /\ LET result == check_redirect(net[cur]) IN
       IF result.raised
       THEN IF except_Exception("Exception")
            THEN /\ pc' = after_except
                 /\ cur' = 0
                 /\ UNCHANGED <<ci, raised>>
            ELSE /\ pc' = "shutdown"
                 /\ cur' = 0
                 /\ raised' = TRUE
                 /\ UNCHANGED ci
       ELSE IF result.value
            THEN /\ pc' = "cancel"
                 /\ ci' = 1
                 /\ UNCHANGED <<cur, raised>>
            ELSE /\ pc' = "next"
                 /\ cur' = 0
                 /\ UNCHANGED <<ci, raised>>
    /\ UNCHANGED <<oracle_vars, probe_vars, derive_vars, app_vars, session_cookies,
                   op, tenant_id, sandbox_url_template, max_impl, ndc, net,
                   future_to, fstate, finished0, waitq, yielded,
                   implementation_tenants, retval, started_after_match, max_running>>

\* lines 158-159: one f.cancel() of the loop over future_to_dc
Cancel ==
    /\ pc = "cancel"
    /\ ci <= Len(future_to)
    /\ fstate' = [fstate EXCEPT ![ci] = IF @ = "PENDING" THEN "CANCELLED" ELSE @]
    /\ ci' = ci + 1
    /\ pc' = IF ci = Len(future_to) THEN "shutdown" ELSE "cancel"
    /\ UNCHANGED <<oracle_vars, probe_vars, derive_vars, app_vars, session_cookies,
                   op, tenant_id, sandbox_url_template, max_impl, ndc, net,
                   future_to, finished0, waitq, cur, yielded, implementation_tenants,
                   retval, raised, started_after_match, max_running>>

\* the executor's __exit__: shutdown(wait=True) joins the workers
PoolDrained == \A k \in 1..Len(fstate) : fstate[k] \notin {"PENDING", "RUNNING"}

\* lines 160 / 165: leaving the with block, the value reaches the caller
ReturnProd ==
    /\ pc = "shutdown"
    /\ op = "prod"
    /\ PoolDrained
    /\ retval' = IF raised THEN retval
                 ELSE IF cur = 0 THEN <<None, None>>
                 ELSE <<future_to[cur].data_center,
                        format(future_to[cur].url_template, tenant_id)>>
    /\ pc' = "returned"
    /\ UNCHANGED <<oracle_vars, probe_vars, derive_vars, app_vars, session_cookies,
                   op, tenant_id, sandbox_url_template, max_impl, ndc, net,
                   future_to, fstate, finished0, waitq, ci, cur, yielded,
                   implementation_tenants, raised, started_after_match, max_running>>

\* lines 222-228: the loop body of find_implementation_tenants
BodyImpl ==
    /\ pc = "body"
    /\ op = "impl"
    /\ LET result == check_redirect(net[cur]) IN
       IF result.raised
       THEN IF except_Exception("Exception")
            THEN /\ pc' = after_except
                 /\ UNCHANGED <<implementation_tenants, raised>>
            ELSE /\ pc' = "shutdown"
                 /\ raised' = TRUE
                 /\ UNCHANGED implementation_tenants
       ELSE /\ implementation_tenants' =
                 IF result.value
                 THEN Append(implementation_tenants,
                             <<impl_label(future_to[cur].i), future_to[cur].url>>)
                 ELSE implementation_tenants
            /\ pc' = "next"
            /\ UNCHANGED raised
    /\ cur' = 0
    /\ UNCHANGED <<oracle_vars, probe_vars, derive_vars, app_vars, session_cookies,
                   op, tenant_id, sandbox_url_template, max_impl, ndc, net,
                   future_to, fstate, finished0, waitq, ci, yielded, retval,
                   started_after_match, max_running>>

\* lines 231-233: leaving the with block, sorting in place and returning
ReturnImpl ==
    /\ pc = "shutdown"
    /\ op = "impl"
    /\ PoolDrained
    /\ implementation_tenants' =
          IF raised THEN implementation_tenants ELSE sort(implementation_tenants)
    /\ retval' = IF raised THEN retval ELSE sort(implementation_tenants)
    /\ pc' = "returned"
    /\ UNCHANGED <<oracle_vars, probe_vars, derive_vars, app_vars, session_cookies,
                   op, tenant_id, sandbox_url_template, max_impl, ndc, net,
                   future_to, fstate, finished0, waitq, ci, cur, yielded,
                   raised, started_after_match, max_running>>

Next ==
    \/ Submit
    \/ \E k \in 1..NFutures : Start(k)
    \/ \E k \in 1..NFutures : Finish(k)
    \/ EnterAsCompleted
    \/ NextFuture
    \/ LoopExit
    \/ BodyProd
    \/ Cancel
    \/ ReturnProd
    \/ BodyImpl
    \/ ReturnImpl

Spec == Init /\ [][Next]_vars

----------------------------------------------------------------------------
(* find_sandbox_url, find_preview_url, find_cc_url *)

IdentityTemplate(host) == <<host, "/", "{id}", "/", "login.htmld?redirect=n">>

UpcTemplate(host) == <<host, "/", "{id}", "/", "upc/login?redirect=n">>

sandbox_urls_missing ==
    << [data_center |-> <<"Data Center 1">>,   url_template |-> IdentityTemplate("https://wd2-impl-identity.workday.com/wday/authgwy")] >>

\* find_sandbox_url.sandbox_urls, in insertion order
sandbox_urls ==
    << [data_center |-> <<"Data Center 1">>,   url_template |-> IdentityTemplate("https://wd2-impl-identity.workday.com/wday/authgwy")],
       [data_center |-> <<"Data Center 3">>,   url_template |-> IdentityTemplate("https://wd3-impl-identity.workday.com/wday/authgwy")],
       [data_center |-> <<"Data Center 5">>,   url_template |-> IdentityTemplate("https://wd5-impl-identity.workday.com/wday/authgwy")],
       [data_center |-> <<"Data Center 10">>,  url_template |-> IdentityTemplate("https://wd10-impl-identity.workday.com/wday/authgwy")],
       [data_center |-> <<"Data Center 12">>,  url_template |-> IdentityTemplate("https://impl.wd12.myworkday.com/wday/authgwy")],
       [data_center |-> <<"Data Center 102">>, url_template |-> IdentityTemplate("https://wd102-impl-identity.workday.com/wday/authgwy")],
       [data_center |-> <<"Data Center 103">>, url_template |-> IdentityTemplate("https://wd103-impl-identity.workday.com/wday/authgwy")],
       [data_center |-> <<"Data Center 104">>, url_template |-> IdentityTemplate("https://wd104-impl-identity.workdaygov.com/wday/authgwy")],
       [data_center |-> <<"Data Center 105">>, url_template |-> IdentityTemplate("https://wd105-impl-identity.workday.com/wday/authgwy")],
       [data_center |-> <<"Data Center 501">>, url_template |-> UpcTemplate("https://impl-identity.wd501.myworkday.com/wday/authgwy")],
       [data_center |-> <<"Data Center 503">>, url_template |-> UpcTemplate("https://impl-identity.wd503.myworkday.com/wday/authgwy")],
       [data_center |-> <<"Data Center 108">>, url_template |-> UpcTemplate("https://impl-identity.wd108.myworkday.com/wday/authgwy")],
       [data_center |-> <<"Data Center 107">>, url_template |-> UpcTemplate("https://impl-identity.wd107.myworkday.com/wday/authgwy")] >>

find_sandbox_url_with_default(dc) ==
    IF \E i \in 1..Len(sandbox_urls) : sandbox_urls[i].data_center = dc
    THEN sandbox_urls[CHOOSE i \in 1..Len(sandbox_urls) : sandbox_urls[i].data_center = dc].url_template
    ELSE sandbox_urls[1].url_template

\* line 188: sandbox_urls.get(data_center, None)
find_sandbox_url(dc) ==
    IF \E i \in 1..Len(sandbox_urls) : sandbox_urls[i].data_center = dc
    THEN sandbox_urls[CHOOSE i \in 1..Len(sandbox_urls) : sandbox_urls[i].data_center = dc].url_template
    ELSE None

\* str.replace(old, new): the occurrences of old, left to right, not overlapping
RECURSIVE replace(_, _, _)
replace(s, old, new) ==
    IF s = <<>> THEN <<>>
    ELSE IF Len(s) >= Len(old) /\ SubSeq(s, 1, Len(old)) = old
         THEN new \o replace(SubSeq(s, Len(old) + 1, Len(s)), old, new)
    ELSE <<Head(s)>> \o replace(Tail(s), old, new)

find_preview_url_any_id(sandbox_url_template_) ==
    replace(sandbox_url_template_, <<"{id}">>, <<"{id}", "_Preview">>)

\* line 193: replace('/{id}/', '/{id}_Preview/')
find_preview_url(sandbox_url_template_) ==
    replace(sandbox_url_template_, <<"/", "{id}", "/">>, <<"/", "{id}", "_Preview", "/">>)

\* line 198: replace('/{id}/', '/{id}_cc/')
find_cc_url(sandbox_url_template_) ==
    replace(sandbox_url_template_, <<"/", "{id}", "/">>, <<"/", "{id}", "_cc", "/">>)

(* The derivations on their own: a template derived once, then once more *)

\* what a template holds besides its placeholder
TemplateTokens == {"/", "login", "_Preview", "_cc"}

RECURSIVE TokenSeqs(_)
TokenSeqs(n) ==
    IF n = 0 THEN {<<>>}
    ELSE {<<>>} \cup {<<c>> \o t : c \in TemplateTokens, t \in TokenSeqs(n - 1)}

\* templates: exactly one placeholder, at most MaxTplLen tokens
Templates ==
    UNION {{p \o <<"{id}">> \o q : p \in [1..i -> TemplateTokens],
                                     q \in TokenSeqs(MaxTplLen - 1 - i)} :
             i \in 0..(MaxTplLen - 1)}
    \cup {sandbox_urls[i].url_template : i \in 1..Len(sandbox_urls)}

InitDerive ==
    /\ d_kind \in {"preview", "cc"}
    /\ d_in \in Templates
    /\ d_once = <<>>
    /\ d_out = <<>>
    /\ d_n = 0
    /\ OracleIdle
    /\ EngineIdle
    /\ ProbeIdle
    /\ AppIdle

\* find_preview_url / find_cc_url applied to the template, then to its result
Derive ==
    /\ d_kind # "none"
    /\ d_n < 2
    /\ LET arg == IF d_n = 0 THEN d_in ELSE d_out
           res == IF d_kind = "preview" THEN find_preview_url(arg) ELSE find_cc_url(arg)
       IN /\ d_out' = res
          /\ d_once' = IF d_n = 0 THEN res ELSE d_once
    /\ d_n' = d_n + 1
    /\ UNCHANGED <<d_kind, d_in, oracle_vars, engine_vars, probe_vars, app_vars>>

NextDerive == Derive

SpecDerive == InitDerive /\ [][NextDerive]_vars

----------------------------------------------------------------------------
(* app.py: one browser session.  Every script run starts with fresh locals *)
(* (data_center .. impls); search_history, prefill and run_from_history    *)
(* live in st.session_state.  The two engine calls are taken by their      *)
(* possible return values.                                                 *)

slider_min == 5

history_limit == 10

\* the text input of the form
FormTenants == TenantIds

\* the slider of the form, from its minimum upwards
SliderValues == slider_min..(slider_min + MaxSliderSteps)

\* a local the current run has not assigned
Unset == <<>>

\* Python truth value of a str or None
truthy(v) == v # None /\ v # <<>>

HasKey(h, k) == \E i \in 1..Len(h) : h[i].tenant = k

\* dict[k] = v: an existing key keeps its place, a new key goes last
dict_set(h, k, v) ==
    IF HasKey(h, k)
    THEN [i \in 1..Len(h) |-> IF h[i].tenant = k THEN [tenant |-> k, ok |-> v] ELSE h[i]]
    ELSE Append(h, [tenant |-> k, ok |-> v])

\* lines 473-475: drop the oldest key when more than 10 are held
trim(h) == IF Len(h) > history_limit THEN Tail(h) ELSE h

\* save_search_history: the file holds the history, or what it held when
\* the write raised (the exception is printed and swallowed)
save_search_history(h) == {h, saved_history}

\* what find_production_url(tenant) can return
find_production_url_returns(tenant) ==
    {<<None, None>>}
    \cup {<<data_centers[k].data_center, format(data_centers[k].url_template, tenant)>> :
             k \in 1..Len(data_centers)}

\* the entries of the valid indices among 1..n, ascending
RECURSIVE impl_entries(_, _, _, _)
impl_entries(template, tenant, n, valid) ==
    IF n <= 0 THEN <<>>
    ELSE impl_entries(template, tenant, n - 1, valid)
         \o (IF n \in valid
             THEN << <<impl_label(n), format(template, impl_id_of(tenant, n))>> >>
             ELSE <<>>)

\* what find_implementation_tenants(template, tenant, max_impl) can return
find_implementation_tenants_returns(template, tenant, n) ==
    {sort(impl_entries(template, tenant, n, valid)) : valid \in SUBSET (1..n)}

FreshLocals ==
    /\ data_center' = Unset
    /\ production_url' = Unset
    /\ sandbox_template' = Unset
    /\ sandbox_url' = Unset
    /\ preview_url' = Unset
    /\ cc_url' = Unset
    /\ impls' = <<>>
    /\ app_probes' = 0

locals == <<data_center, production_url, sandbox_template, sandbox_url, preview_url,
            cc_url, impls, app_probes>>

InitApp ==
    /\ AppIdle
    /\ OracleIdle
    /\ EngineIdle
    /\ ProbeIdle
    /\ DeriveIdle

\* "Find URLs" pressed: the script reruns with submitted = True
AppFormSubmit ==
    /\ app_pc = "idle"
    /\ a_tenant' \in FormTenants
    /\ a_max_impl' \in SliderValues
    /\ app_pc' = "submitted"
    /\ FreshLocals
    /\ UNCHANGED <<search_history, saved_history, prefill, run_from_history>>
    /\ UNCHANGED <<oracle_vars, engine_vars, probe_vars, derive_vars, runs>>

\* lines 364-367: a history button pressed
AppHistoryClick ==
    /\ app_pc = "idle"
    /\ \E i \in 1..Len(search_history) : prefill' = search_history[i].tenant
    /\ run_from_history' = TRUE
    /\ app_pc' = "rerun"
    /\ FreshLocals
    /\ UNCHANGED <<a_tenant, a_max_impl, search_history, saved_history>>
    /\ UNCHANGED <<oracle_vars, engine_vars, probe_vars, derive_vars, runs>>

\* lines 369-373: "Clear History" pressed (shown only when there is history)
AppClearHistory ==
    /\ app_pc = "idle"
    /\ search_history # <<>>
    /\ search_history' = <<>>
    /\ prefill' = <<>>
    /\ saved_history' \in save_search_history(<<>>)
    /\ app_pc' = "rerun"
    /\ FreshLocals
    /\ UNCHANGED <<a_tenant, a_max_impl, run_from_history>>
    /\ UNCHANGED <<oracle_vars, engine_vars, probe_vars, derive_vars, runs>>

\* lines 389-401: the rerun after st.rerun(); the form is not submitted
AppRerun ==
    /\ app_pc = "rerun"
    /\ IF run_from_history
       THEN /\ a_tenant' = prefill
            /\ a_max_impl' \in SliderValues
            /\ run_from_history' = FALSE
            /\ app_pc' = "submitted"
       ELSE /\ app_pc' = "idle"
            /\ UNCHANGED <<a_tenant, a_max_impl, run_from_history>>
    /\ UNCHANGED <<search_history, saved_history, prefill, locals>>
    /\ UNCHANGED <<oracle_vars, engine_vars, probe_vars, derive_vars, runs>>

\* lines 406-413: the guard on the tenant id, then the entry marked failed
AppGuard ==
    /\ app_pc = "submitted"
    /\ IF ~truthy(a_tenant)
       THEN /\ app_pc' = "idle"
            /\ UNCHANGED <<search_history, saved_history>>
       ELSE /\ search_history' = dict_set(search_history, a_tenant, FALSE)
            /\ saved_history' \in save_search_history(search_history')
            /\ app_pc' = "prod"
    /\ UNCHANGED <<a_tenant, a_max_impl, prefill, run_from_history, locals>>
    /\ UNCHANGED <<oracle_vars, engine_vars, probe_vars, derive_vars, runs>>

\* lines 420-503: the production lookup and what is derived from it
AppProd ==
    /\ app_pc = "prod"
    /\ \E ret \in find_production_url_returns(a_tenant) :
          /\ data_center' = ret[1]
          /\ production_url' = ret[2]
          /\ app_probes' = app_probes + Len(data_centers)
          /\ IF ~truthy(ret[2])
             THEN /\ prefill' = <<>>
                  /\ app_pc' = "idle"
                  /\ UNCHANGED <<search_history, saved_history, sandbox_template,
                                 sandbox_url, preview_url, cc_url>>
             ELSE /\ search_history' = trim(dict_set(search_history, a_tenant, TRUE))
                  /\ saved_history' \in save_search_history(search_history')
                  /\ sandbox_template' = find_sandbox_url(ret[1])
                  /\ IF truthy(sandbox_template')
                     THEN /\ sandbox_url' = format(sandbox_template', a_tenant)
                          /\ preview_url' = format(find_preview_url(sandbox_template'), a_tenant)
                          /\ cc_url' = format(find_cc_url(sandbox_template'), a_tenant)
                          /\ app_pc' = "impl"
                     ELSE /\ app_pc' = "idle"
                          /\ UNCHANGED <<sandbox_url, preview_url, cc_url>>
                  /\ UNCHANGED prefill
    /\ UNCHANGED <<a_tenant, a_max_impl, run_from_history, impls>>
    /\ UNCHANGED <<oracle_vars, engine_vars, probe_vars, derive_vars, runs>>

\* lines 505-526: the implementation scan and its listing
AppImpl ==
    /\ app_pc = "impl"
    /\ impls' \in find_implementation_tenants_returns(sandbox_template, a_tenant, a_max_impl)
    /\ app_probes' = app_probes + a_max_impl
    /\ app_pc' = "idle"
    /\ UNCHANGED <<a_tenant, a_max_impl, search_history, saved_history, prefill,
                   run_from_history, data_center, production_url, sandbox_template,
                   sandbox_url, preview_url, cc_url>>
    /\ UNCHANGED <<oracle_vars, engine_vars, probe_vars, derive_vars, runs>>

NextApp ==
    \/ AppFormSubmit
    \/ AppHistoryClick
    \/ AppClearHistory
    \/ AppRerun
    \/ AppGuard
    \/ AppProd
    \/ AppImpl

SpecApp == InitApp /\ [][NextApp]_vars

----------------------------------------------------------------------------
(* One probe on the wire: _SESSION.get through the HTTPAdapter mounted    *)
(* with Retry(total=3, connect=3, read=3, status_forcelist=...,           *)
(* allowed_methods=["HEAD", "GET"], raise_on_status=False).  One hop; the  *)
(* redirects requests follows are further hops with the same policy.      *)

retry_total == 3

retry_connect == 3

retry_read == 3

status_forcelist == {429, 500, 502, 503, 504}

allowed_methods == {"HEAD", "GET"}

request_method_head == "HEAD"

\* line 68: _SESSION.get
request_method == "GET"

\* errors of one attempt, by the class urllib3 hands to Retry.increment:
\* connect timeout, failed name resolution or refused connection, read
\* timeout, connection reset, TLS failure
ConnectionErrors == {"ConnectTimeoutError", "NewConnectionError"}

ReadErrors == {"ReadTimeoutError", "ProtocolError"}

OtherErrors == {"SSLError"}

AttemptErrors == ConnectionErrors \cup ReadErrors \cup OtherErrors

AttemptStatuses == {200, 404} \cup status_forcelist

\* Retry.increment: total always, then the counter of the error's class
increment(rt, error) ==
    [total |-> rt.total - 1,
     connect |-> IF error \in ConnectionErrors THEN rt.connect - 1 ELSE rt.connect,
     read |-> IF error \in ReadErrors THEN rt.read - 1 ELSE rt.read]

\* Retry.is_exhausted: a counter below zero
is_exhausted(rt) == rt.total < 0 \/ rt.connect < 0 \/ rt.read < 0

\* Retry.is_retry for a response
is_retry(method, status) == method \in allowed_methods /\ status \in status_forcelist

InitProbe ==
    /\ attempts = <<>>
    /\ retries = [total |-> retry_total, connect |-> retry_connect, read |-> retry_read]
    /\ probe_pc = "send"
    /\ probe_result = "none"
    /\ OracleIdle
    /\ EngineIdle
    /\ DeriveIdle
    /\ AppIdle

\* an attempt that ends in an error: retried until the budget is exhausted,
\* then raised to check_redirect as a requests.RequestException
AttemptFails ==
    /\ probe_pc = "send"
    /\ \E e \in AttemptErrors :
          /\ attempts' = Append(attempts, [method |-> request_method, error |-> e, status |-> 0])
          /\ IF e \in ReadErrors /\ request_method \notin allowed_methods
             THEN /\ probe_pc' = "done"
                  /\ probe_result' = "raised"
                  /\ UNCHANGED retries
             ELSE /\ retries' = increment(retries, e)
                  /\ IF is_exhausted(retries')
                     THEN probe_pc' = "done" /\ probe_result' = "raised"
                     ELSE UNCHANGED <<probe_pc, probe_result>>
    /\ UNCHANGED <<oracle_vars, engine_vars, derive_vars, app_vars>>

\* an attempt that ends in a response: a status of the force list is
\* retried; with the budget exhausted the last response is returned
AttemptAnswers ==
    /\ probe_pc = "send"
    /\ \E s \in AttemptStatuses :
          /\ attempts' = Append(attempts, [method |-> request_method, error |-> "none", status |-> s])
          /\ IF is_retry(request_method, s)
             THEN /\ retries' = increment(retries, "none")
                  /\ IF is_exhausted(retries')
                     THEN probe_pc' = "done" /\ probe_result' = "response"
                     ELSE UNCHANGED <<probe_pc, probe_result>>
             ELSE /\ probe_pc' = "done"
                  /\ probe_result' = "response"
                  /\ UNCHANGED retries
    /\ UNCHANGED <<oracle_vars, engine_vars, derive_vars, app_vars>>

NextProbe == AttemptFails \/ AttemptAnswers

SpecProbe == InitProbe /\ [][NextProbe]_vars

----------------------------------------------------------------------------
(* Further calls of the engine: a scan longer than three indices, a pool  *)
(* with more candidates than workers, and probes whose responses carry    *)
(* cookies.                                                               *)

\* a probe either validates or fails on the network
ScanResponses ==
    { Response(OTHER_URL, 200, <<"text/html">>, <<"<html>">>),
      Failure("RequestException") }

\* find_implementation_tenants(template, "acme", MaxScan)
InitScan ==
    /\ op = "impl"
    /\ ndc = BoundedRegistry
    /\ tenant_id = <<"acme">>
    /\ sandbox_url_template = find_sandbox_url(<<"Data Center 1">>)
    /\ max_impl = MaxScan
    /\ net \in [1..max_impl -> ScanResponses]
    /\ InitCall
    /\ OracleIdle
    /\ ProbeIdle
    /\ DeriveIdle
    /\ AppIdle

NextScan ==
    \/ Submit
    \/ \E k \in 1..NFutures : Start(k)
    \/ \E k \in 1..NFutures : Finish(k)
    \/ EnterAsCompleted
    \/ NextFuture
    \/ LoopExit
    \/ BodyImpl
    \/ ReturnImpl

SpecScan == InitScan /\ [][NextScan]_vars

\* find_production_url over the whole registry, or a scan of more indices
\* than the pool has workers; every probe validates
InitPool ==
    /\ \/ /\ op = "prod"
          /\ ndc = Len(data_centers)
          /\ sandbox_url_template = <<>>
          /\ max_impl = 0
       \/ /\ op = "impl"
          /\ ndc = BoundedRegistry
          /\ sandbox_url_template = find_sandbox_url(<<"Data Center 1">>)
          /\ max_impl \in (impl_max_workers + 1)..(impl_max_workers + MaxOverflow)
    /\ tenant_id = <<"acme">>
    /\ net = [k \in 1..NFutures |-> Response(OTHER_URL, 200, <<"text/html">>, <<"<html>">>)]
    /\ InitCall
    /\ OracleIdle
    /\ ProbeIdle
    /\ DeriveIdle
    /\ AppIdle

\* the submitting thread and the workers, up to the call of as_completed
NextPool ==
    \/ Submit
    \/ \E k \in 1..NFutures : Start(k)
    \/ \E k \in 1..NFutures : Finish(k)

SpecPool == InitPool /\ [][NextPool]_vars

\* a valid response with or without Set-Cookie, or a network failure
SessionResponses ==
    { SetsCookie(Response(OTHER_URL, 200, <<"text/html">>, <<"<html>">>)),
      Response(OTHER_URL, 200, <<"text/html">>, <<"<html>">>),
      Failure("RequestException") }

InitSession ==
    /\ \/ /\ op = "prod"
          /\ sandbox_url_template = <<>>
          /\ max_impl = 0
       \/ /\ op = "impl"
          /\ sandbox_url_template = find_sandbox_url(<<"Data Center 1">>)
          /\ max_impl = MaxIndex
    /\ ndc = BoundedRegistry
    /\ tenant_id = <<"acme">>
    /\ net \in [1..NFutures -> SessionResponses]
    /\ InitCall
    /\ OracleIdle
    /\ ProbeIdle
    /\ DeriveIdle
    /\ AppIdle

SpecSession == InitSession /\ [][Next]_vars

----------------------------------------------------------------------------
(* Termination: the calls under fair scheduling of the calling thread and *)
(* the pool workers, with servers that never answer.                      *)

timeout == 2

request_timeout_unset == [set |-> FALSE, seconds |-> 0]

\* lines 54 / 68: timeout=timeout with the default 2.0; the engine calls
\* check_redirect(url) without a timeout of its own
request_timeout == [set |-> TRUE, seconds |-> timeout]

\* the server never answers: with a timeout the request raises
\* requests.Timeout, a RequestException, when the timeout expires
TimedOut ==
    [Failure("RequestException") EXCEPT !.text = <<"Read timed out.">>]

LiveResponses ==
    { Response(OTHER_URL, 200, <<"text/html">>, <<"<html>">>),
      TimedOut }

InitLive ==
    /\ \/ /\ op = "prod"
          /\ sandbox_url_template = <<>>
          /\ max_impl = 0
       \/ /\ op = "impl"
          /\ sandbox_url_template = find_sandbox_url(<<"Data Center 1">>)
          /\ max_impl \in 0..MaxLive
    /\ ndc = (IF MaxLive < Len(data_centers) THEN MaxLive ELSE Len(data_centers))
    /\ tenant_id = <<"acme">>
    /\ net \in [1..NFutures -> LiveResponses]
    /\ InitCall
    /\ OracleIdle
    /\ ProbeIdle
    /\ DeriveIdle
    /\ AppIdle

\* a probe of a silent server ends only because the request has a timeout
FinishWithin(k) ==
    /\ k \in 1..Len(fstate)
    /\ net[k] = TimedOut => request_timeout.set
    /\ Finish(k)

\* the steps of the thread that called the engine
CallerStep ==
    \/ Submit
    \/ EnterAsCompleted
    \/ NextFuture
    \/ LoopExit
    \/ BodyProd
    \/ Cancel
    \/ ReturnProd
    \/ BodyImpl
    \/ ReturnImpl

NextLive ==
    \/ Submit
    \/ \E k \in 1..NFutures : Start(k)
    \/ \E k \in 1..NFutures : FinishWithin(k)
    \/ EnterAsCompleted
    \/ NextFuture
    \/ LoopExit
    \/ BodyProd
    \/ Cancel
    \/ ReturnProd
    \/ BodyImpl
    \/ ReturnImpl

\* the calling thread keeps running, idle workers take queued probes, and
\* every running probe ends (by an answer or by its timeout)
Fairness ==
    /\ WF_vars(CallerStep)
    /\ WF_vars(\E k \in 1..NFutures : Start(k))
    /\ WF_vars(\E k \in 1..NFutures : FinishWithin(k))

SpecLive == InitLive /\ [][NextLive]_vars /\ Fairness

----------------------------------------------------------------------------
(* app.py: a session that starts from a stored history.  A search is run   *)
(* to the end of the script in one step; only st.session_state and the    *)
(* history file outlive the script run.                                   *)

\* load_search_history(): the file left by n successful searches
LoadedHistory(n) == [i \in 1..n |-> [tenant |-> <<"corp">> \o str(i), ok |-> TRUE]]

InitHistory ==
    /\ app_pc = "idle"
    /\ a_tenant = <<>>
    /\ a_max_impl = 0
    /\ \E n \in 0..history_limit :
          /\ search_history = LoadedHistory(n)
          /\ saved_history = LoadedHistory(n)
    /\ prefill = <<>>
    /\ run_from_history = FALSE
    /\ data_center = Unset
    /\ production_url = Unset
    /\ sandbox_template = Unset
    /\ sandbox_url = Unset
    /\ preview_url = Unset
    /\ cc_url = Unset
    /\ impls = <<>>
    /\ app_probes = 0
    /\ runs = 0
    /\ OracleIdle
    /\ EngineIdle
    /\ ProbeIdle
    /\ DeriveIdle

\* lines 420-532: from the production lookup to the end of the script
AppRunToEnd ==
    /\ app_pc = "prod"
    /\ runs < MaxRuns
    /\ \E ret \in find_production_url_returns(a_tenant) :
          IF ~truthy(ret[2])
          THEN /\ prefill' = <<>>
               /\ UNCHANGED <<search_history, saved_history>>
          ELSE /\ search_history' = trim(dict_set(search_history, a_tenant, TRUE))
               /\ saved_history' \in save_search_history(search_history')
               /\ UNCHANGED prefill
    /\ app_pc' = "idle"
    /\ runs' = runs + 1
    /\ UNCHANGED <<a_tenant, a_max_impl, run_from_history, locals>>
    /\ UNCHANGED <<oracle_vars, engine_vars, probe_vars, derive_vars>>

NextHistory ==
    \/ AppFormSubmit
    \/ AppHistoryClick
    \/ AppClearHistory
    \/ AppRerun
    \/ AppGuard
    \/ AppRunToEnd

SpecHistory == InitHistory /\ [][NextHistory]_vars

----------------------------------------------------------------------------
(* Vocabulary of the properties *)

\* the decimal numeral of i, for i < 100
NumeralOf(i) == IF i < 10 THEN <<Digit(i)>> ELSE <<Digit(i \div 10), Digit(i % 10)>>

ProbeIsValid(k) == ~check_redirect(net[k]).raised /\ check_redirect(net[k]).value

\* registry entries whose production probe is valid
ProdValid == {k \in 1..Len(Registry) : ProbeIsValid(k)}

\* indices whose implementation probe is valid
ImplValid == {i \in 1..NFutures : ProbeIsValid(i)}

Least(S) == CHOOSE k \in S : \A j \in S : k <= j

\* entry k's template with the tenant id in place of the placeholder
ExpectedProdUrl(k) ==
    <<Registry[k].url_template[1], "/">> \o tenant_id \o <<"/", "login.htmld?redirect=n">>

ExpectedProd(k) == <<Registry[k].data_center, ExpectedProdUrl(k)>>

ExpectedImpl(i) ==
    << <<"IMPL">> \o NumeralOf(i) \o <<":">>,
       <<sandbox_url_template[1], "/">> \o tenant_id \o NumeralOf(i)
           \o <<"/", sandbox_url_template[5]>> >>

\* the index an entry's label names
IndexOfEntry(e) == CHOOSE i \in 1..99 : e[1] = <<"IMPL">> \o NumeralOf(i) \o <<":">>

ProdReturned == op = "prod" /\ pc = "returned"

ImplReturned == op = "impl" /\ pc = "returned"

OracleReturned == oracle_pc = "returned" /\ r.kind = "response"

\* the final URL is the sentinel, give or take one trailing slash
SentinelUpToSlash(u) == u = INVALID_URL \/ u = INVALID_URL \o <<"/">>

NotSentinel(u) == \A n \in 0..(Len(u)) : u # INVALID_URL \o Repeat("/", n)

OracleSays(b) == ~oracle_ret.raised /\ oracle_ret.value = b

\* the value of the top-level "failover" member of a well-formed object body
FailoverField(text) ==
    LET pv == json(text) IN
    IF pv.ok /\ pv.v.t = "dict" /\ py_in("failover", pv.v)
    THEN py_getitem(pv.v, "failover").t ELSE "absent"

ErrorMessageField(text) ==
    LET pv == json(text) IN pv.ok /\ pv.v.t = "dict" /\ py_in("errorMessage", pv.v)

NoWhitespace(text) == SelectSeq(text, LAMBDA c : c \notin Whitespace)

\* the body mentions failover=false or an error message, in any spacing
CarriesMarker(text) ==
    \/ contains(NoWhitespace(text), <<"\"failover\"", ":", "false">>)
    \/ \E i \in 1..Len(text) : text[i] = "\"errorMessage\""

Malformed(text) == ~json(text).ok

\* the raw text starts with "{" and holds one of the three literal fragments
RawFragment(text) ==
    LET t == strip(text) IN
    /\ t # <<>>
    /\ t[1] = "{"
    /\ \E i \in 1..Len(t) :
          \/ t[i] = "\"errorMessage\""
          \/ /\ t[i] = "\"failover\""
             /\ i + 2 <= Len(t)
             /\ t[i + 1] = ":"
             /\ \/ t[i + 2] = "false"
                \/ i + 3 <= Len(t) /\ t[i + 2] = " " /\ t[i + 3] = "false"

----------------------------------------------------------------------------
(* Properties *)

\* C1: when two or more registry entries' probes are valid, find_production_url
\* returns the entry that comes first in registry order, whatever the order in
\* which the probes complete.
C1_TieBreakRegistryOrder ==
    (ProdReturned /\ Cardinality(ProdValid) >= 2)
        => retval = ExpectedProd(Least(ProdValid))

\* C2: when exactly one registry entry's probe is valid, find_production_url
\* returns that entry's data-center id and that entry's template with the
\* tenant id substituted, in every interleaving.
C2_SingleValidReturned ==
    (ProdReturned /\ Cardinality(ProdValid) = 1)
        => (~raised /\ retval = ExpectedProd(Least(ProdValid)))

C2_Witness ==
    /\ ProdReturned
    /\ ProdValid = {2}
    /\ tenant_id = <<"acme">>
    /\ Len(retval) = 2
    /\ retval[1] = <<"Data Center 3">>
    /\ yielded[1] # 2

\* C3: when no registry entry's probe is valid, find_production_url returns
\* (None, None), only with every entry's probe completed, and no exception
\* reaches the caller.
C3_AbsentAfterAllProbes ==
    (ProdReturned /\ ProdValid = {})
        => /\ ~raised
           /\ retval = <<None, None>>
           /\ Len(fstate) = Len(Registry)
           /\ \A k \in 1..Len(Registry) : fstate[k] = "FINISHED"

C3_Witness ==
    /\ ProdReturned
    /\ ProdValid = {}
    /\ retval = <<None, None>>
    /\ \E k \in 1..Len(Registry) : net[k].kind = "Exception"
    /\ \E k \in 1..Len(Registry) : net[k].kind = "RequestException"

\* C4: the sequence find_implementation_tenants returns is strictly ascending
\* by numeric index, whatever the order in which the probes complete.
C4_SortedAscending ==
    (ImplReturned /\ ~raised)
        => \A a, b \in 1..Len(retval) :
              a < b => IndexOfEntry(retval[a]) < IndexOfEntry(retval[b])

C4_Witness ==
    /\ ImplReturned
    /\ Len(retval) >= 2
    /\ \E a, b \in 1..Len(yielded) :
          /\ a < b
          /\ yielded[a] > yielded[b]
          /\ {yielded[a], yielded[b]} \subseteq ImplValid

\* C5: find_implementation_tenants returns exactly one entry for each index of
\* 1..max_impl whose probe is valid and none for any other; the entry of i is
\* ("IMPL<i>:", template with tenant_id followed by i); max_impl < 1 gives [].
C5_ExactlyValidIndices ==
    ImplReturned
        => /\ ~raised
           /\ Len(retval) = Cardinality(ImplValid)
           /\ \A i \in ImplValid : \E a \in 1..Len(retval) : retval[a] = ExpectedImpl(i)
           /\ max_impl < 1 => retval = <<>>

C5_Witness ==
    /\ ImplReturned
    /\ max_impl >= 3
    /\ ImplValid = {1, 3}
    /\ tenant_id = <<"acme">>
    /\ Len(retval) = 2

\* C6: check_redirect returns False whenever the final URL is the sentinel up
\* to a trailing slash, whatever the status and the body.
C6_SentinelInvalid ==
    (OracleReturned /\ SentinelUpToSlash(r.url)) => OracleSays(FALSE)

C6_Witness ==
    /\ OracleReturned
    /\ r.url = INVALID_URL \o <<"/">>
    /\ r.status_code = 200
    /\ r.text = <<"{", "\"failover\"", ":", "true", "}">>
    /\ OracleSays(FALSE)

\* C7: with status 200 and a final URL that is not the sentinel, a body whose
\* failover field is false gives False and a body whose failover field is true
\* (and no errorMessage field) gives True, whatever the content type and the
\* whitespace of the body.
C7_FailoverFieldDecides ==
    (OracleReturned /\ r.status_code = 200 /\ NotSentinel(r.url))
        => /\ FailoverField(r.text) = "False" => OracleSays(FALSE)
           /\ (FailoverField(r.text) = "True" /\ ~ErrorMessageField(r.text))
                 => OracleSays(TRUE)

\* C8: for an obtained response whose final URL is not the sentinel, every
\* status >= 400 and every other non-2xx status gives False, and when the body
\* carries no failover=false and no error-message marker the result is True
\* exactly for a status in 200..299.
C8_StatusDecides ==
    (OracleReturned /\ NotSentinel(r.url))
        => /\ ~oracle_ret.raised
           /\ r.status_code >= 400 => OracleSays(FALSE)
           /\ r.status_code \notin 200..299 => OracleSays(FALSE)
           /\ ~CarriesMarker(r.text) => OracleSays(r.status_code \in 200..299)

C8_Witness ==
    /\ OracleReturned
    /\ NotSentinel(r.url)
    /\ r.status_code = 299
    /\ r.text = <<"{", "\"failover\"", ":", " ", " ", "true", "}">>
    /\ r.content_type = <<"application/json">>
    /\ OracleSays(TRUE)

\* C9 (as claimed): a malformed body never raises and never decides: the
\* result is the status-code decision alone, valid iff 2xx.
C9_MalformedIsInconclusive ==
    (OracleReturned /\ NotSentinel(r.url) /\ Malformed(r.text))
        => OracleSays(r.status_code \in 200..299)

\* C9 (amended): a malformed body never makes check_redirect raise; the result
\* is valid iff the status is 2xx and the raw text does not both start with "{"
\* and hold "failover":false, "failover": false or "errorMessage".
C9_MalformedFallsToTextCheck ==
    (OracleReturned /\ NotSentinel(r.url) /\ Malformed(r.text))
        => OracleSays(r.status_code \in 200..299 /\ ~RawFragment(r.text))

C9_Witness ==
    /\ OracleReturned
    /\ NotSentinel(r.url)
    /\ r.text = <<"{", "\"failover\"", ":", "false">>
    /\ r.content_type = <<"application/json">>
    /\ r.status_code = 200
    /\ OracleSays(FALSE)

\* C10: a failed probe (network failure or any exception) counts as invalid
\* for its candidate only: no exception reaches the caller, every candidate's
\* outcome is still collected, and the valid ones decide the result.
C10_FailureIsLocal ==
    (pc = "returned" /\ \E k \in 1..NFutures : net[k].kind # "response")
        => /\ ~raised
           /\ op = "prod" =>
                 \/ ProdValid = {} /\ retval = <<None, None>>
                 \/ \E k \in ProdValid : retval = ExpectedProd(k)
           /\ op = "impl" =>
                 /\ Len(yielded) = NFutures
                 /\ Len(retval) = Cardinality(ImplValid)
                 /\ \A i \in ImplValid : \E a \in 1..Len(retval) : retval[a] = ExpectedImpl(i)

C10_Witness ==
    /\ ProdReturned
    /\ net[1].kind = "Exception"
    /\ net[2].kind = "RequestException"
    /\ yielded = <<1, 2, 3>>
    /\ retval = ExpectedProd(3)

\* a match was observed by the loop body and the cancel loop has begun
MatchObserved == op = "prod" /\ pc \in {"cancel", "shutdown", "returned"} /\ cur # 0

\* C11: once a valid production match has been found, no probe that has not
\* yet started is started afterwards.
C11_NoProbeStartsAfterMatch ==
    [][MatchObserved =>
          \A k \in 1..Len(fstate) : fstate'[k] = "RUNNING" => fstate[k] = "RUNNING"]_vars

\* C12: after the first valid match find_production_url returns without
\* waiting for the probes still in flight: once the pending futures are
\* cancelled the return can happen at once.
C12_ReturnDoesNotWait ==
    (op = "prod" /\ pc = "shutdown" /\ cur # 0) => ENABLED ReturnProd

\* the variant marker of the derivation under test
Marker == IF d_kind = "preview" THEN "_Preview" ELSE "_cc"

PlaceholderAt == CHOOSE i \in 1..Len(d_in) : d_in[i] = "{id}"

\* the template has the form .../{id}/...
SlashBounded ==
    /\ PlaceholderAt > 1
    /\ PlaceholderAt < Len(d_in)
    /\ d_in[PlaceholderAt - 1] = "/"
    /\ d_in[PlaceholderAt + 1] = "/"

Count(s, c) == Cardinality({i \in 1..Len(s) : s[i] = c})

\* C13: find_preview_url and find_cc_url are idempotent with no double
\* insertion: deriving twice gives what deriving once gives, and a template
\* .../{id}/login gives .../{id}_Preview/login (.../{id}_cc/login).
C13_DerivationIdempotent ==
    /\ d_n >= 1 =>
          /\ SlashBounded =>
                d_once = SubSeq(d_in, 1, PlaceholderAt) \o <<Marker>>
                            \o SubSeq(d_in, PlaceholderAt + 1, Len(d_in))
          /\ ~SlashBounded => d_once = d_in
    /\ d_n = 2 =>
          /\ d_out = d_once
          /\ Count(d_out, Marker) <= Count(d_in, Marker) + 1

C13_Witness ==
    /\ d_n = 2
    /\ d_kind = "preview"
    /\ d_in = <<"login", "/", "{id}", "/", "login">>
    /\ d_out = <<"login", "/", "{id}", "_Preview", "/", "login">>

\* the run has resolved a data center
Resolved == truthy(data_center)

\* C14: a sandbox URL, and the preview, customer-central and implementation
\* results derived from it, are populated only when a successful production
\* lookup has resolved a data center; find_sandbox_url is absent for every
\* data-center id that is not a key of its registry.
C14_SandboxNeedsDataCenter ==
    /\ (truthy(sandbox_template) \/ truthy(sandbox_url) \/ truthy(preview_url)
          \/ truthy(cc_url) \/ impls # <<>>)
          => (Resolved /\ truthy(production_url))
    /\ \A dc \in {None, Unset, data_center, <<"Data Center 2">>, a_tenant} :
          (\A i \in 1..Len(sandbox_urls) : sandbox_urls[i].data_center # dc)
             => find_sandbox_url(dc) = None

C14_Witness ==
    /\ app_pc = "idle"
    /\ data_center = <<"Data Center 501">>
    /\ sandbox_url = <<"https://impl-identity.wd501.myworkday.com/wday/authgwy", "/",
                       "acme", "/", "upc/login?redirect=n">>
    /\ Len(impls) = 2

\* C15: for an empty tenant identifier no probe is ever scheduled, also when
\* find_production_url is called directly.
C15_EmptyTenantIssuesNoProbe ==
    (op = "prod" /\ tenant_id = <<>>) => (future_to = <<>> /\ fstate = <<>>)

\* the classes the retry policy is meant for: timeouts, connection reset and
\* the statuses 429/500/502/503/504
Transient(attempt) ==
    \/ attempt.error \in {"ConnectTimeoutError", "ReadTimeoutError", "ProtocolError"}
    \/ attempt.status \in {429, 500, 502, 503, 504}

\* C16: a probe makes at most 3 attempts in total, and only an attempt that
\* failed with a transient class is followed by another attempt (a DNS
\* failure, a TLS failure or a 4xx other than 429 ends the probe at once).
C16_RetryBudget ==
    /\ Len(attempts) <= 3
    /\ \A i \in 1..Len(attempts) : i < Len(attempts) => Transient(attempts[i])

\* C20 as stated: the first request of a probe is a HEAD-style request, a
\* GET comes only after the HEAD was rejected.
C20_HeadBeforeGet ==
    \A i \in 1..Len(attempts) :
        attempts[i].method = "GET" =>
            (i > 1 /\ attempts[i - 1].method = "HEAD" /\ attempts[i - 1].status # 200)

\* C20 amended: every request a probe issues is a body-reading GET; no
\* HEAD-style request is issued, first or later.
C20_AlwaysGet ==
    \A i \in 1..Len(attempts) : attempts[i].method = "GET"

C20_Witness ==
    /\ probe_pc = "done"
    /\ probe_result = "response"
    /\ Len(attempts) = 2
    /\ attempts[1].status = 503
    /\ attempts[2].status = 200

\* the steps of a pool worker: a future starts to run or finishes
WorkerStep ==
    \E k \in 1..Len(fstate) :
        fstate'[k] # fstate[k] /\ fstate'[k] \in {"RUNNING", "FINISHED"}

\* index k has been probed or is being probed
Probed(k) == k <= Len(fstate) /\ fstate[k] \in {"RUNNING", "FINISHED"}

\* C17 as stated: after 3 consecutive failures of the first indices and no
\* success before them, no index beyond that run is probed.
C17_EarlyStop ==
    (op = "impl" /\ (\A k \in 1..3 : k <= NFutures /\ ~ProbeIsValid(k)))
       => \A k \in 1..NFutures : k > 3 => ~Probed(k)

\* C17 amended: the scan is exhaustive; when it returns every index from 1
\* to max_impl has been probed to completion, whatever the first probes gave.
C17_ScanIsExhaustive ==
    ImplReturned =>
        /\ Len(fstate) = max_impl
        /\ \A k \in 1..Len(fstate) : fstate[k] = "FINISHED"
        /\ Len(retval) = Cardinality(ImplValid)

C17_Witness ==
    /\ ImplReturned
    /\ max_impl > 3
    /\ \A k \in 1..3 : ~ProbeIsValid(k)
    /\ ProbeIsValid(max_impl)
    /\ Len(retval) >= 1

\* C18: the number of probes executing at the same time is at most 8 during
\* find_production_url and at most 10 during find_implementation_tenants.
C18_BoundedParallelism ==
    /\ op = "prod" => (Cardinality(Running) <= 8 /\ max_running <= 8)
    /\ op = "impl" => (Cardinality(Running) <= 10 /\ max_running <= 10)

C18_Witness ==
    /\ op = "prod"
    /\ Cardinality(Running) = 8
    /\ \E k \in 1..Len(fstate) : fstate[k] = "PENDING"

\* C19: a worker probe writes no state shared with other probes or with the
\* caller: not the result collection, not the match, not the HTTP session.
C19_WorkersWriteNothingShared ==
    [][WorkerStep =>
          /\ session_cookies' = session_cookies
          /\ implementation_tenants' = implementation_tenants
          /\ retval' = retval]_vars

\* C21: every probe carries a finite timeout, and with every probe attempt
\* ending within its timeout every call of find_production_url and
\* find_implementation_tenants eventually returns.
C21_EveryCallReturns ==
    <>(pc = "returned" /\ ~raised /\ PoolDrained /\ request_timeout.set
         /\ request_timeout.seconds > 0)

C21_Witness ==
    /\ op = "prod"
    /\ pc = "returned"
    /\ \A k \in 1..Len(fstate) : net[k] = TimedOut /\ fstate[k] = "FINISHED"
    /\ Len(fstate) = ndc
    /\ retval = <<None, None>>

\* C22: the search history in memory and the persisted history hold at most
\* 10 tenant ids, after any searches and Clear History actions.
C22_HistoryAtMostTen ==
    /\ Len(search_history) <= 10
    /\ Len(saved_history) <= 10

\* a search run ends: the script leaves the production lookup
RunEnds == app_pc = "prod" /\ app_pc' = "idle"

\* C23: after a search run the searched tenant id is present in the search
\* history, whatever the history held before (marked successful after a
\* successful lookup, failed otherwise).
C23_SearchedTenantRecorded ==
    [][RunEnds => HasKey(search_history', a_tenant)]_vars

\* the data-center ids of a registry
Ids(registry) == {registry[i].data_center : i \in 1..Len(registry)}

\* exactly one "{id}" in the template, with "/" on both sides of it
OnePlaceholderInSlashes(t) ==
    /\ Count(t, "{id}") = 1
    /\ \E i \in 2..(Len(t) - 1) : t[i] = "{id}" /\ t[i - 1] = "/" /\ t[i + 1] = "/"

\* C24: the production registry and the sandbox registry have the same
\* data-center ids, so find_sandbox_url returns a template for every data
\* center find_production_url can return, and every template has exactly one
\* "{id}" substitution point bounded by "/" on both sides.
C24_RegistriesConsistent ==
    /\ Ids(data_centers) = Ids(sandbox_urls)
    /\ \A i \in 1..Len(data_centers) : OnePlaceholderInSlashes(data_centers[i].url_template)
    /\ \A i \in 1..Len(sandbox_urls) : OnePlaceholderInSlashes(sandbox_urls[i].url_template)
    /\ Resolved =>
          /\ data_center \in Ids(data_centers)
          /\ sandbox_template = find_sandbox_url(data_center)
          /\ sandbox_template # None
          /\ OnePlaceholderInSlashes(sandbox_template)

C24_Witness ==
    /\ data_center = <<"Data Center 107">>
    /\ sandbox_template = UpcTemplate("https://impl-identity.wd107.myworkday.com/wday/authgwy")
    /\ production_url = <<"https://wd107.myworkday.com/wday/authgwy", "/", "acme", "/",
                          "login.htmld?redirect=n">>

====
